---- MODULE Spec2Model ----
(***************************************************************************)
(* State-machine model of the interactive terminal menu engine             *)
(* (src/src/utils/setup_menu_engine.py, interactive_menu).                 *)
(*                                                                         *)
(* One behaviour is a sequence of invocations of interactive_menu on a     *)
(* caller-owned item tree, sharing the process-wide cursor store.          *)
(* An invocation is: Call (locals + cursor-hide), InitialClear, and then   *)
(* the loop of Frame (flatten, normalise cursor, viewport, render) and     *)
(* Key (read one key and run its handler).                                 *)
(***************************************************************************)
EXTENDS Integers, Sequences, FiniteSets, TLC

VARIABLES
    options,        \* the caller's item tree: Seq of [selectable, children]
    is_selected,    \* set of item ids whose is_selected attribute is True
    cursor_memory,  \* the cursor store: menu id -> row index, NoEntry if absent
    multi_select,   \* parameter of the running invocation
    menu_id,        \* parameter of the running invocation (NoId: omitted)
    current_row,    \* local of interactive_menu
    in_sub_nav,     \* local of interactive_menu
    term_height,    \* terminal height seen by the last frame
    start_row,      \* viewport of the last frame
    end_row,
    key,            \* the last key read in the running invocation
    pc,             \* control position of the engine
    result,         \* what the last invocation returned or raised
    cursor_visible, \* terminal cursor visibility (hide / show sequences)
    down_prefix,    \* history: j if the keys after which the loop went on
                    \* are j DOWNs, -1 otherwise
    sub_parent,     \* history: item from which SUB_NAV was entered
    end_cursor,     \* history: menu id -> row on which its last invocation
                    \* ended, if it ended by confirm or cancel and the tree
                    \* is still the same (NoEntry otherwise)
    before_key,     \* history: is_selected, current_row, in_sub_nav and
                    \* the cursor store as they were when the last key was
                    \* read, and whether that key repeated the one before it
    repaint_strategy,   \* parameter of the running invocation
    described,      \* the descriptions of the items: pairs <<item, text>>
                    \* for the items whose description is not ""
    static_rendered,            \* local of interactive_menu
    prev_dynamic_line_count,    \* local of interactive_menu
    prev_term_height,           \* local of interactive_menu (NoEntry: None)
    prev_static_signature,      \* local of interactive_menu
    screen,         \* the terminal: the static block shown, the lines under
                    \* it, and the line the terminal cursor is on, counted
                    \* from the first line under the static block.  A line
                    \* of the terminal is j when it shows dynamic line j of
                    \* the last frame, EmptyLine when it shows nothing and
                    \* OldLine when it shows text written by an earlier frame
    last_frame,     \* history: the number of frames rendered since the
                    \* last key read and what the last of them did (screen
                    \* cleared or not, header_func calls, the counter when
                    \* the lines were written, the cursor-up count); the
                    \* line of the first dynamic line of the last frame
                    \* rendered, the lines the cursor advanced while it was
                    \* written, and the state it showed
    action_calls,   \* history: the number of item actions the engine has
                    \* invoked since the call
    panel,          \* an IncrementalPanelRenderer: static_rendered and
                    \* prev_dynamic_line_count, and as history its last
                    \* operation with what it did
    ask             \* ask_user: position, default, selected, the key read,
                    \* the result, and as history the last arrow key read

\* the locals of the renderer and the terminal
paint_vars == <<static_rendered, prev_dynamic_line_count, prev_term_height,
                prev_static_signature, screen>>

vars == <<options, is_selected, cursor_memory, multi_select, menu_id,
          current_row, in_sub_nav, term_height, start_row, end_row, key, pc,
          result, cursor_visible, down_prefix, sub_parent, end_cursor,
          before_key, repaint_strategy, described, paint_vars, last_frame,
          action_calls, panel, ask>>

\* the variables of the yes/no dialog and its renderer
dialog_vars == <<panel, ask>>

\* the variables of the menu engine
menu_vars == <<options, is_selected, cursor_memory, multi_select, menu_id,
               current_row, in_sub_nav, term_height, start_row, end_row, key,
               pc, result, cursor_visible, down_prefix, sub_parent,
               end_cursor, before_key, repaint_strategy, described,
               paint_vars, last_frame, action_calls>>

(***************************************************************************)
(* Bounds of the model.                                                    *)
(***************************************************************************)
MaxRows == 3      \* flat rows of the item trees of Spec
MaxViewRows == 6  \* flat rows of the item trees of SpecView
MaxStatic == 1    \* non-selectable rows of the item trees of SpecView
MaxKeys == 3      \* length up to which a prefix of DOWN keys is counted
MaxLong == 50     \* rows of the long flat list
MaxPaintRows == 2 \* flat rows of the item trees of SpecPaint
MaxPanelLines == 4 \* dynamic lines of a render of the panel on its own
MaxRenders == 3   \* renders since construction or reset, counted up to
MaxDrift == 2     \* lines under the static block above the first line a
                  \* frame writes, up to which frames are followed

(***************************************************************************)
(* Program constants.                                                      *)
(***************************************************************************)
reserved_lines == 15
min_visible_items == 5

NoEntry == -1
NoId == "none"
MenuIds == {"m1"}
NoParent == <<0, 0>>
NoKey == "NOKEY"
NoSignature == "None"
EmptyLine == 0
OldLine == -1
Strategies == {"auto", "incremental", "full"}
\* Values of key: UP, DOWN, SPACE, ENTER, ESC are the keys the engine handles;
\* OTHER stands for None, LEFT, RIGHT and any other value read_key_fn returns;
\* CTRL_C for the read that raises KeyboardInterrupt.
\* terminal heights: with at most min_visible_items rows every height shows
\* all rows, so Spec runs at the default height of line 154; SpecView, whose
\* trees are longer than the window, runs at heights 20 and 21
TermHeights == {24}
ViewHeights == {20, 21}
LongHeights == {10, 20, 30, 70}
PaintHeights == {24, 30}

Max(a, b) == IF a >= b THEN a ELSE b

(***************************************************************************)
(* Item trees.  A top-level item i has id <<i, 0>>, its j-th child the id  *)
(* <<i, j>>.  MenuItem.__init__: is_selected = False; children = [] when   *)
(* not given; MenuStaticItem sets selectable = False.                      *)
(***************************************************************************)
RECURSIVE ChildLists(_)
ChildLists(k) ==
    IF k = 0 THEN {<<>>}
    ELSE {<<[selectable |-> b, children |-> <<>>]>> \o s :
              b \in BOOLEAN, s \in ChildLists(k - 1)}

RECURSIVE TreesOfRows(_)
TreesOfRows(n) ==
    IF n = 0 THEN {<<>>}
    ELSE UNION {{<<[selectable |-> b, children |-> ks]>> \o rest :
                     b \in BOOLEAN, ks \in ChildLists(k),
                     rest \in TreesOfRows(n - 1 - k)} : k \in 0..(n - 1)}

Trees == UNION {TreesOfRows(n) : n \in 0..MaxRows}

ItemOf(opts, id) ==
    IF id[2] = 0 THEN opts[id[1]] ELSE opts[id[1]].children[id[2]]

ItemIds(opts) ==
    {<<i, 0>> : i \in 1..Len(opts)} \cup
    UNION {{<<i, j>> : j \in 1..Len(opts[i].children)} : i \in 1..Len(opts)}

(***************************************************************************)
(* flat_rows (lines 130-135): rows are 0-indexed in the code; FlatRow(f,r) *)
(* is flat_rows[r].                                                        *)
(***************************************************************************)
ChildRows(opts, i) ==
    [j \in 1..Len(opts[i].children) |->
        [obj |-> <<i, j>>, level |-> 1, parent |-> <<i, 0>>]]

RECURSIVE FlattenFrom(_, _)
FlattenFrom(opts, i) ==
    IF i > Len(opts) THEN <<>>
    ELSE <<[obj |-> <<i, 0>>, level |-> 0, parent |-> NoParent]>>
         \o (IF Len(opts[i].children) > 0 THEN ChildRows(opts, i) ELSE <<>>)
         \o FlattenFrom(opts, i + 1)

\* the rows with every child gathered after the last top-level row
RECURSIVE FlattenChildrenLast(_)
FlattenChildrenLast(opts) ==
    IF Len(opts) = 0 THEN <<>>
    ELSE LET n == Len(opts)
             before == FlattenChildrenLast(SubSeq(opts, 1, n - 1))
         IN  SubSeq(before, 1, n - 1)
             \o <<[obj |-> <<n, 0>>, level |-> 0, parent |-> NoParent]>>
             \o SubSeq(before, n, Len(before))
             \o ChildRows(opts, n)

Flatten(opts) == FlattenFrom(opts, 1)

FlatRow(flat, r) == flat[r + 1]

HasChildren(opts, id) == Len(ItemOf(opts, id).children) > 0

\* _is_selectable (lines 82-84)
IsSelectable(opts, row) == ItemOf(opts, row.obj).selectable

\* any(_is_selectable(row) for row in flat_rows) (line 143)
AnySelectable(opts, flat) ==
    \E r \in 0..(Len(flat) - 1) : IsSelectable(opts, FlatRow(flat, r))

\* _find_next_selectable (lines 86-95); NoEntry stands for None
RECURSIVE FindFrom(_, _, _, _, _)
FindFrom(opts, flat, idx, step, fuel) ==
    IF fuel = 0 THEN NoEntry
    ELSE LET nxt == (idx + step) % Len(flat)
         IN  IF IsSelectable(opts, FlatRow(flat, nxt)) THEN nxt
             ELSE FindFrom(opts, flat, nxt, step, fuel - 1)

FindNextSelectable(opts, flat, start_idx, step) ==
    IF Len(flat) = 0 THEN NoEntry
    ELSE FindFrom(opts, flat, start_idx % Len(flat), step, Len(flat))

\* first index i with flat_rows[i]["obj"] == item  (lines 114-117, 389-392)
RowOfItem(flat, item) ==
    LET hits == {r \in 0..(Len(flat) - 1) : FlatRow(flat, r).obj = item}
    IN  IF hits = {} THEN NoEntry
        ELSE CHOOSE r \in hits : \A q \in hits : r <= q

\* first row with level 1 whose parent is item (lines 332-335, 346-349, 374-377);
\* the cursor is left where it is when there is none
\* the same search without the break: it ends on the last such row
LastChildRow(flat, item, cur) ==
    LET hits == {r \in 0..(Len(flat) - 1) :
                    FlatRow(flat, r).level = 1 /\ FlatRow(flat, r).parent = item}
    IN  IF hits = {} THEN cur
        ELSE CHOOSE r \in hits : \A q \in hits : r >= q

FirstChildRow(flat, item, cur) ==
    LET hits == {r \in 0..(Len(flat) - 1) :
                    FlatRow(flat, r).level = 1 /\ FlatRow(flat, r).parent = item}
    IN  IF hits = {} THEN cur
        ELSE CHOOSE r \in hits : \A q \in hits : r <= q


\* UP / DOWN in SUB_NAV (lines 293-303, 311-318): rotate among the rows that
\* share the current row's parent; a row without parent does not move
SubNavStep(flat, cur, d) ==
    LET current_parent == FlatRow(flat, cur).parent
        siblings == {r \in 0..(Len(flat) - 1) :
                        FlatRow(flat, r).parent = current_parent}
        rel_idx == Cardinality({s \in siblings : s < cur})
        new_rel_idx == (rel_idx + d) % Cardinality(siblings)
    IN  IF current_parent = NoParent THEN cur
        ELSE CHOOSE s \in siblings :
                 Cardinality({q \in siblings : q < s}) = new_rel_idx

\* UP / DOWN in TOP_NAV (lines 305-308, 320-323): the while loop, run for at
\* most len(flat_rows) further rows; NoEntry when it has found none by then,
\* which is when the loop never ends
RECURSIVE TopNavFrom(_, _, _, _, _)
TopNavFrom(opts, flat, next_row, d, fuel) ==
    IF FlatRow(flat, next_row).level > 0
          \/ ~IsSelectable(opts, FlatRow(flat, next_row))
    THEN IF fuel = 0 THEN NoEntry
         ELSE TopNavFrom(opts, flat, (next_row + d) % Len(flat), d, fuel - 1)
    ELSE next_row

\* the same move stopping at the first and the last row instead of wrapping
TopNavClamped(opts, flat, cur, d) ==
    IF cur + d < 0 \/ cur + d >= Len(flat) THEN cur
    ELSE TopNavFrom(opts, flat, cur + d, d, Len(flat))

\* the same move skipping non-selectable rows only, child rows not
TopNavAnyLevel(opts, flat, cur, d) == FindNextSelectable(opts, flat, cur, d)

TopNavStep(opts, flat, cur, d) ==
    TopNavFrom(opts, flat, (cur + d) % Len(flat), d, Len(flat))

\* collect (lines 361-368): selected items, each parent before its children
RECURSIVE CollectChildren(_, _, _, _)
CollectChildren(opts, sel, i, j) ==
    IF j > Len(opts[i].children) THEN <<>>
    ELSE (IF <<i, j>> \in sel THEN <<(<<i, j>>)>> ELSE <<>>)
         \o CollectChildren(opts, sel, i, j + 1)

RECURSIVE CollectFrom(_, _, _)
CollectFrom(opts, sel, i) ==
    IF i > Len(opts) THEN <<>>
    ELSE (IF <<i, 0>> \in sel THEN <<(<<i, 0>>)>> ELSE <<>>)
         \o CollectChildren(opts, sel, i, 1)
         \o CollectFrom(opts, sel, i + 1)

\* collect without the recursion into children
RECURSIVE CollectTopLevel(_, _)
CollectTopLevel(opts, sel) ==
    IF Len(opts) = 0 THEN <<>>
    ELSE CollectTopLevel(SubSeq(opts, 1, Len(opts) - 1), sel)
         \o (IF <<Len(opts), 0>> \in sel THEN <<(<<Len(opts), 0>>)>> ELSE <<>>)

Collect(opts, sel) == CollectFrom(opts, sel, 1)

\* _persist_cursor storing the row itself, child rows included
PersistRowIndex(mem, id, flat, row_index) ==
    IF id = NoId \/ Len(flat) = 0 THEN mem
    ELSE [mem EXCEPT ![id] = row_index % Len(flat)]

\* _persist_cursor without the menu_id test: every entry takes the row
PersistWithoutId(mem, id, flat, row_index) ==
    IF Len(flat) = 0 THEN mem
    ELSE [m \in DOMAIN mem |-> row_index % Len(flat)]

\* _persist_cursor that writes nothing
PersistNothing(mem, id, flat, row_index) == mem

\* _persist_cursor (lines 105-119): the store after the call
PersistCursor(mem, id, flat, row_index) ==
    IF id = NoId \/ Len(flat) = 0 THEN mem
    ELSE LET safe_index == row_index % Len(flat)
             row == FlatRow(flat, safe_index)
             parent_idx ==
                 IF row.level > 0 /\ row.parent # NoParent
                 THEN LET hits == {r \in 0..(Len(flat) - 1) :
                                      /\ FlatRow(flat, r).obj = row.parent
                                      /\ FlatRow(flat, r).level = 0}
                      IN  IF hits = {} THEN NoEntry
                          ELSE CHOOSE r \in hits : \A q \in hits : r <= q
                 ELSE NoEntry
         IN  IF parent_idx # NoEntry
             THEN [mem EXCEPT ![id] = parent_idx]
             ELSE [mem EXCEPT ![id] = safe_index]

\* cursor_memory[menu_id] = 0 on the immediate returns (lines 138-139, 144-145)
StoreZero(mem, id) == IF id = NoId THEN mem ELSE [mem EXCEPT ![id] = 0]

\* an invocation that ignores the store
CursorFromTop(mem, id) == 0

\* cursor_memory.get(menu_id, 0) if menu_id else 0 (line 79)
InitialCursor(mem, id) ==
    IF id # NoId /\ mem[id] # NoEntry THEN mem[id] ELSE 0

\* the cursor after the normalisation at the top of the loop (lines 141-152)
NormalizedRow(opts, flat, cur) ==
    LET r == cur % Len(flat)
    IN  IF IsSelectable(opts, FlatRow(flat, r)) THEN r
        ELSE FindNextSelectable(opts, flat, r, 1)

\* viewport (lines 164-173)
MaxVisibleItems(h) == Max(min_visible_items, h - reserved_lines)

\* the window placed a whole window, not half of one, above the cursor
ViewportAboveCursor(cur, total, h) ==
    LET max_visible_items == MaxVisibleItems(h)
        s0 == Max(0, cur - max_visible_items)
        e0 == s0 + max_visible_items
    IN  IF e0 > total
        THEN [start_row |-> Max(0, total - max_visible_items),
              end_row |-> total]
        ELSE [start_row |-> s0, end_row |-> e0]

\* the window cut at the end of the list without moving its start back
ViewportCutAtEnd(cur, total, h) ==
    LET max_visible_items == MaxVisibleItems(h)
        half_view == max_visible_items \div 2
        s0 == Max(0, cur - half_view)
        e0 == s0 + max_visible_items
    IN  IF e0 > total
        THEN [start_row |-> s0, end_row |-> total]
        ELSE [start_row |-> s0, end_row |-> e0]

Viewport(cur, total, h) ==
    LET max_visible_items == MaxVisibleItems(h)
        half_view == max_visible_items \div 2
        s0 == Max(0, cur - half_view)
        e0 == s0 + max_visible_items
    IN  IF e0 > total
        THEN [start_row |-> Max(0, total - max_visible_items),
              end_row |-> total]
        ELSE [start_row |-> s0, end_row |-> e0]

\* the top of the loop with the test for an empty list only
FrameExitEmptyOnly(opts, flat, cur) ==
    IF Len(flat) = 0 THEN "empty" ELSE "render"

\* how the top of the loop leaves the frame (lines 137-152)
FrameExit(opts, flat, cur) ==
    IF Len(flat) = 0 THEN "empty"
    ELSE IF ~AnySelectable(opts, flat) THEN "none_selectable"
    ELSE IF ~IsSelectable(opts, FlatRow(flat, cur % Len(flat)))
            /\ FindNextSelectable(opts, flat, cur % Len(flat), 1) = NoEntry
    THEN "no_next"
    ELSE "render"

(***************************************************************************)
(* Rendering (lines 175-289).  A dynamic line is what it shows: the marker *)
(* of hidden rows with its count, a row with its flat index, its pointer   *)
(* and its checkbox, a divider, the description of a row, the footer with  *)
(* its count.  With the default left margin a line holding only the margin *)
(* is an empty line, as a cleared line is.                                 *)
(***************************************************************************)
Line(kind, n, pointer, checked) ==
    [kind |-> kind, n |-> n, pointer |-> pointer, checked |-> checked]

Blank == Line("blank", 0, FALSE, FALSE)

Divider == Line("divider", 0, FALSE, FALSE)

\* the hidden rows counted whatever their level
AnyLevelRows(flat, from, to, level) == Max(0, to - from)

\* sum(1 for r in flat_rows[from:to] if r["level"] == cur_level)
SameLevelRows(flat, from, to, level) ==
    Cardinality({r \in from..(to - 1) : FlatRow(flat, r).level = level})

\* dynamic_lines of a frame (lines 178-240)
\* Descriptions of the items: "" (the default of MenuItem.__init__), a text of
\* white space only, or a text with visible characters.
NoDescription == ""
BlankText == " "
DescriptionTexts == {BlankText, "d"}

\* every way of giving some items of the tree a description other than ""
Descriptions(opts) ==
    UNION {{{<<i, f[i]>> : i \in S} : f \in [S -> DescriptionTexts]} :
               S \in SUBSET ItemIds(opts)}

\* getattr(item, "description", "")
DescriptionOf(desc, item) ==
    IF \E t \in DescriptionTexts : <<item, t>> \in desc
    THEN CHOOSE t \in DescriptionTexts : <<item, t>> \in desc
    ELSE NoDescription

\* str.strip on the texts of the model
Strip(text) == IF text = BlankText THEN "" ELSE text

\* _get_item_description, the get_item_description_fn of the callers
GetItemDescription(desc, item) ==
    LET description == DescriptionOf(desc, item)
    IN  IF description = "" THEN "" ELSE Strip(description)

\* the description line showing the description of the first row
DescriptionOfFirstRow(flat, cur, desc) ==
    IF GetItemDescription(desc, FlatRow(flat, 0).obj) # ""
    THEN <<Line("description", 0, FALSE, FALSE)>>
    ELSE <<>>

\* lines 219-223: the description line, numbered by the row it describes
DescriptionLine(flat, cur, desc) ==
    IF GetItemDescription(desc, FlatRow(flat, cur).obj) # ""
    THEN <<Line("description", cur, FALSE, FALSE)>>
    ELSE <<>>

DynamicLines(opts, flat, cur, view, multi, sel, desc) ==
    LET cur_level == FlatRow(flat, cur).level
        top == IF view.start_row > 0
               THEN Line("above",
                         SameLevelRows(flat, 0, view.start_row, cur_level),
                         FALSE, FALSE)
               ELSE Blank
        rows == [i \in 1..(view.end_row - view.start_row) |->
                    LET idx == view.start_row + i - 1
                    IN  Line("row", idx,
                             idx = cur /\ IsSelectable(opts, FlatRow(flat, idx)),
                             multi /\ FlatRow(flat, idx).obj \in sel)]
        bottom == IF view.end_row < Len(flat)
                  THEN Line("below",
                            SameLevelRows(flat, view.end_row, Len(flat),
                                          cur_level),
                            FALSE, FALSE)
                  ELSE Blank
        description == DescriptionLine(flat, cur, desc)
        footer == Line("footer",
                       IF multi THEN Len(Collect(opts, sel)) ELSE 0,
                       FALSE, multi)
    IN  <<top>> \o rows \o <<bottom, Divider>> \o description
        \o <<Divider, footer>>

\* static_signature (lines 243-250): of its parts only in_sub_nav changes
\* during an invocation
StaticSignature(sub_nav) == IF sub_nav THEN "SUB_NAV" ELSE "TOP_NAV"

\* len(dynamic_lines): the two marker lines, the rows of the window, the two
\* dividers, the description line if any, and the footer
DynamicLineCount(view, with_description) ==
    (view.end_row - view.start_row) + 5 + (IF with_description THEN 1 ELSE 0)

\* the lines of the terminal when the next frame begins: what the frame
\* before wrote is now old text, except the marker lines that were empty
\* (`top_empty`: no row hidden above; `bottom_empty`: none hidden below,
\* `bottom` being the number of that line in the frame)
Aged(lines, top_empty, bottom, bottom_empty) ==
    [i \in 1..Len(lines) |->
        IF lines[i] = EmptyLine \/ (lines[i] = 1 /\ top_empty)
           \/ (lines[i] = bottom /\ bottom_empty)
        THEN EmptyLine
        ELSE OldLine]

\* the screen after clear_screen_fn and the initial clear
ClearedScreen == [static |-> NoSignature, lines |-> <<>>, row |-> 0]

\* the lines of the terminal after `written` has been printed from line
\* `from` on, each line cleared before it is written
Overwrite(lines, from, written) ==
    LET last == Max(Len(lines), from + Len(written))
    IN  [i \in 1..last |->
            IF i > from /\ i <= from + Len(written) THEN written[i - from]
            ELSE IF i <= Len(lines) THEN lines[i]
            ELSE EmptyLine]

\* print(f"\033[{prev_dynamic_line_count}F") (lines 279-280)
CursorUp(prev_count, scr) == prev_count

\* lines 154-162 and 242-289: what one frame does to the locals of the
\* renderer and to the terminal
\* static_rendered after lines 158-162 and 251-255 without the test of the
\* terminal height
StillRenderedAnyHeight(rendered, same_height, same_signature) ==
    rendered /\ same_signature

\* static_rendered after lines 158-162 and 251-255
StillRendered(rendered, same_height, same_signature) ==
    rendered /\ same_height /\ same_signature

Paint(strategy, rendered, prev_count, prev_height, prev_signature, scr, h, sub_nav, line_count) ==
    LET use_incremental == strategy \in {"auto", "incremental"}
        signature == StaticSignature(sub_nav)
        same_height == prev_height = NoEntry \/ prev_height = h
        same_signature ==
            prev_signature = NoSignature \/ prev_signature = signature
        rendered1 == StillRendered(rendered, same_height, same_signature)
        repaint == ~use_incremental \/ ~rendered1
        scr1 == IF repaint
                THEN [static |-> signature, lines |-> <<>>, row |-> 0]
                ELSE scr
        rendered2 == IF repaint /\ use_incremental THEN TRUE ELSE rendered1
        prev1 == IF repaint /\ use_incremental THEN 0 ELSE prev_count
        from == IF use_incremental /\ rendered2 /\ prev1 > 0
                THEN scr1.row - CursorUp(prev1, scr1)
                ELSE scr1.row
        surplus == IF use_incremental /\ prev1 > line_count
                   THEN prev1 - line_count
                   ELSE 0
        written == [i \in 1..(line_count + surplus) |->
                       IF i <= line_count THEN i ELSE EmptyLine]
    IN  [static_rendered |-> rendered2,
         prev_dynamic_line_count |-> line_count,
         prev_term_height |-> h,
         prev_static_signature |-> signature,
         from |-> from,
         cleared |-> repaint,
         header_calls |-> IF repaint THEN 1 ELSE 0,
         counter |-> prev1,
         up |-> scr1.row - from,
         advanced |-> Len(written),
         screen |-> [static |-> scr1.static,
                     lines |-> Overwrite(scr1.lines, from, written),
                     row |-> from + Len(written)]]

\* what the user sees under the static block: the lines without the empty
\* lines at the end
RECURSIVE Visible(_)
Visible(lines) ==
    IF Len(lines) > 0 /\ lines[Len(lines)] = EmptyLine
    THEN Visible(SubSeq(lines, 1, Len(lines) - 1))
    ELSE lines

(***************************************************************************)
(* Return values.                                                          *)
(***************************************************************************)
Pending == [kind |-> "pending", item |-> NoParent, items |-> <<>>]
ReturnNone == [kind |-> "none", item |-> NoParent, items |-> <<>>]
ReturnItem(id) == [kind |-> "item", item |-> id, items |-> <<>>]
ReturnList(seq) == [kind |-> "list", item |-> NoParent, items |-> seq]
Raised == [kind |-> "raise", item |-> NoParent, items |-> <<>>]

\* down_prefix after key k, when the loop goes on: one more DOWN in a prefix
\* made of DOWN keys only, counted up to MaxKeys
NextPrefix(p, k) == IF k = "DOWN" /\ p >= 0 /\ p < MaxKeys THEN p + 1 ELSE -1


\* SPACE that marks the item instead of flipping its flag
MarkSelected(sel, item) == sel \cup {item}

\* item.is_selected = not item.is_selected (line 337)
Toggle(sel, item) ==
    IF item \in sel THEN sel \ {item} ELSE sel \cup {item}

\* the ENTER handler with the test for children placed before the test for
\* multi_select
EnterChildrenFirst(multi, selectable, level, has_children, sub_nav) ==
    IF ~selectable THEN "continue"
    ELSE IF level = 0 /\ has_children /\ ~sub_nav THEN "enter"
    ELSE IF multi THEN "confirm"
    ELSE "return"

\* the branch the ENTER handler takes (lines 355-381)
EnterBranch(multi, selectable, level, has_children, sub_nav) ==
    IF ~selectable THEN "continue"
    ELSE IF multi THEN "confirm"
    ELSE IF level = 0 /\ has_children /\ ~sub_nav THEN "enter"
    ELSE "return"

\* the row ESC leaves the cursor on when it ends SUB_NAV (lines 386-392)
EscRow(flat, cur) ==
    LET row == FlatRow(flat, cur)
    IN  IF row.level > 0 /\ row.parent # NoParent
             /\ RowOfItem(flat, row.parent) # NoEntry
        THEN RowOfItem(flat, row.parent)
        ELSE cur

\* history only: where the invocation of menu id `id` ended
EndedAt(ec, id, r) == IF id = NoId THEN ec ELSE [ec EXCEPT ![id] = r]

\* last_frame while no frame has been rendered
NoFrameYet ==
    [renders |-> 0, cleared |-> FALSE, header_calls |-> 0, counter |-> 0,
     up |-> 0, from |-> 0, advanced |-> 0,
     shown |-> [current_row |-> 0, in_sub_nav |-> FALSE, is_selected |-> {}]]

\* while True (line 129) taken for a jump back to the key read
ReadAgain == "key"

\* while True (line 129): after a key that does not return, the loop body
\* starts again from its top
LoopAgain == "loop"

\* before_key while no key has been read
NoKeyYet == [is_selected |-> {}, current_row |-> 0, in_sub_nav |-> FALSE,
             cursor_memory |-> [id \in MenuIds |-> NoEntry],
             repeat |-> FALSE]

(***************************************************************************)
(* IncrementalPanelRenderer (setup_ui_io.py lines 13-45) and its copy      *)
(* _FallbackIncrementalPanelRenderer (setup_models_ui.py lines 10-36).     *)
(* The record holds the two attributes and, as history, the last operation *)
(* (op), its arguments (lines, force_full), the number of renders since    *)
(* construction or reset counted up to MaxRenders (since), and what the    *)
(* render did: clear_screen_fn calls, render_static_fn calls, the cursor-up *)
(* count and the surplus lines blanked.                                    *)
(***************************************************************************)
PanelClasses == {"IncrementalPanelRenderer", "_FallbackIncrementalPanelRenderer"}

\* __init__ (lines 16-20)
NewPanelOf(cls) ==
    [cls |-> cls, static_rendered |-> FALSE, prev_dynamic_line_count |-> 0,
     op |-> "new", lines |-> 0, force_full |-> FALSE, since |-> 0,
     clears |-> 0, static_draws |-> 0, up |-> 0, blanks |-> 0]

NewPanel == NewPanelOf("IncrementalPanelRenderer")

\* reset (lines 22-25)
Reset(p) ==
    [NewPanelOf(p.cls) EXCEPT !.op = "reset"]

\* render (lines 27-45) with the test of line 29 given as full
RenderWith(p, n, force_full, full) ==
    LET counter == IF full THEN 0 ELSE p.prev_dynamic_line_count
    IN  [cls |-> p.cls,
         static_rendered |-> IF full THEN TRUE ELSE p.static_rendered,
         prev_dynamic_line_count |-> n,
         op |-> "render", lines |-> n, force_full |-> force_full,
         since |-> IF p.since < MaxRenders THEN p.since + 1 ELSE MaxRenders,
         clears |-> IF full THEN 1 ELSE 0,
         static_draws |-> IF full THEN 1 ELSE 0,
         up |-> counter,
         blanks |-> IF counter > n THEN counter - n ELSE 0]

\* render that repaints only when the static block has not been drawn
RenderIgnoringForce(p, n, force_full) ==
    RenderWith(p, n, force_full, ~p.static_rendered)

\* render (lines 27-45)
Render(p, n, force_full) ==
    RenderWith(p, n, force_full, force_full \/ ~p.static_rendered)

(***************************************************************************)
(* ask_user (setup_ui_io.py lines 96-148).  Defaults: "None" stands for    *)
(* None; " n " for an n with white space around it.                        *)
(***************************************************************************)
Defaults == {"y", "n", "Y", "N", " n ", "", "None", "no"}

AskKeys == {"LEFT", "UP", "RIGHT", "DOWN", "ENTER", "ESC", "OTHER"}

ArrowKeys == {"LEFT", "UP", "RIGHT", "DOWN"}

\* str.strip and str.lower on the defaults of the model
StripDefault(d) == IF d = " n " THEN "n" ELSE d

LowerDefault(d) == IF d = "N" THEN "n" ELSE IF d = "Y" THEN "y" ELSE d

\* lines 105-107
NormalizedDefault(default) ==
    LET given == IF default \in {"None", ""} THEN "y" ELSE default
        normalized_default == LowerDefault(StripDefault(given))
    IN  IF normalized_default \notin {"y", "n"} THEN "y"
        ELSE normalized_default

\* line 109: 0 is 'Yes', 1 is 'No'
InitiallySelected(default) ==
    IF NormalizedDefault(default) = "y" THEN 0 ELSE 1

\* the arrow keys with LEFT and RIGHT only
SelectedAfterLeftRight(selected, k) ==
    IF k = "LEFT" THEN 0 ELSE IF k = "RIGHT" THEN 1 ELSE selected

\* lines 140-143
SelectedAfter(selected, k) ==
    IF k \in {"LEFT", "UP"} THEN 0
    ELSE IF k \in {"RIGHT", "DOWN"} THEN 1
    ELSE selected

\* ask while ask_user is not running
AskIdle ==
    [pc |-> "idle", default |-> "y", selected |-> 0, key |-> NoKey,
     result |-> FALSE, last_arrow |-> NoKey]

(***************************************************************************)
(* Initial state: a tree of freshly constructed items, an empty store, no  *)
(* invocation running.                                                     *)
(***************************************************************************)
InitOf(trees, ids) ==
    /\ options \in trees
    /\ is_selected = {}
    /\ cursor_memory = [m \in ids |-> NoEntry]
    /\ multi_select = FALSE
    /\ menu_id = NoId
    /\ current_row = 0
    /\ in_sub_nav = FALSE
    /\ term_height = 24
    /\ start_row = 0
    /\ end_row = 0
    /\ key = NoKey
    /\ pc = "idle"
    /\ result = Pending
    /\ cursor_visible = TRUE
    /\ down_prefix = 0
    /\ sub_parent = NoParent
    /\ end_cursor = [m \in ids |-> NoEntry]
    /\ before_key = NoKeyYet
    /\ repaint_strategy = "auto"
    /\ described = {}
    /\ static_rendered = FALSE
    /\ prev_dynamic_line_count = 0
    /\ prev_term_height = NoEntry
    /\ prev_static_signature = NoSignature
    /\ screen = ClearedScreen
    /\ last_frame = NoFrameYet
    /\ action_calls = 0
    /\ panel = NewPanel
    /\ ask = AskIdle

InitWith(trees) == InitOf(trees, MenuIds)

Init == InitWith(Trees)

(***************************************************************************)
(* Between two invocations the caller builds another tree t, with as many  *)
(* rows as the one before.                                                 *)
(***************************************************************************)
BuildOptions(t) ==
    /\ pc = "idle"
    /\ t # options
    /\ Len(Flatten(t)) = Len(Flatten(options))
    /\ options' = t
    /\ end_cursor' = [id \in DOMAIN end_cursor |-> NoEntry]
    /\ UNCHANGED <<is_selected, cursor_memory, multi_select, menu_id,
                   current_row, in_sub_nav, term_height, start_row, end_row,
                   key, pc, result, cursor_visible, down_prefix, sub_parent,
                   before_key, repaint_strategy, described, paint_vars,
                   last_frame, action_calls,
                   dialog_vars>>

(***************************************************************************)
(* interactive_menu(options, multi_select=m, menu_id=id,                   *)
(* repaint_strategy=strategy): lines 79-121, the locals and the            *)
(* cursor-hide sequence.  The caller passes the tree with freshly          *)
(* constructed items (is_selected False, line 19), of which it has set     *)
(* those of pre to selected and given those of desc a description.         *)
(***************************************************************************)
Call(m, id, pre, strategy, desc) ==
    /\ pc = "idle"
    /\ is_selected' = pre
    /\ term_height' = 24
    /\ start_row' = 0
    /\ end_row' = 0
    /\ multi_select' = m
    /\ menu_id' = id
    /\ current_row' = InitialCursor(cursor_memory, id)
    /\ in_sub_nav' = FALSE
    /\ cursor_visible' = FALSE
    /\ pc' = "clear"
    /\ result' = Pending
    /\ key' = NoKey
    /\ down_prefix' = 0
    /\ sub_parent' = NoParent
    /\ before_key' = [NoKeyYet EXCEPT !.cursor_memory = cursor_memory]
    /\ last_frame' = NoFrameYet
    /\ action_calls' = 0
    /\ UNCHANGED dialog_vars
    /\ repaint_strategy' = strategy
    /\ described' = desc
    /\ static_rendered' = FALSE
    /\ prev_dynamic_line_count' = 0
    /\ prev_term_height' = NoEntry
    /\ prev_static_signature' = NoSignature
    /\ UNCHANGED <<options, cursor_memory, end_cursor, screen>>

(***************************************************************************)
(* The invocation is over: its locals are gone, the caller has the result  *)
(* and drops the items it had built for the call.                          *)
(***************************************************************************)
Resume ==
    /\ pc \in {"returned", "raised"}
    /\ pc' = "idle"
    /\ is_selected' = {}
    /\ multi_select' = FALSE
    /\ menu_id' = NoId
    /\ current_row' = 0
    /\ in_sub_nav' = FALSE
    /\ term_height' = 24
    /\ start_row' = 0
    /\ end_row' = 0
    /\ key' = NoKey
    /\ result' = Pending
    /\ down_prefix' = 0
    /\ sub_parent' = NoParent
    /\ before_key' = NoKeyYet
    /\ last_frame' = NoFrameYet
    /\ action_calls' = 0
    /\ UNCHANGED dialog_vars
    /\ repaint_strategy' = "auto"
    /\ described' = {}
    /\ static_rendered' = FALSE
    /\ prev_dynamic_line_count' = 0
    /\ prev_term_height' = NoEntry
    /\ prev_static_signature' = NoSignature
    /\ screen' = ClearedScreen
    /\ UNCHANGED <<options, cursor_memory, cursor_visible, end_cursor>>

(***************************************************************************)
(* Lines 123-126: the initial screen clear, before the try block.  If it   *)
(* raises, no finally clause runs.                                         *)
(***************************************************************************)
InitialClear ==
    /\ pc = "clear"
    /\ \/ /\ pc' = "loop"
          /\ screen' = ClearedScreen
          /\ UNCHANGED <<result, end_cursor>>
       \/ /\ pc' = "raised"
          /\ result' = Raised
          /\ end_cursor' = EndedAt(end_cursor, menu_id, NoEntry)
          /\ UNCHANGED screen
    /\ UNCHANGED <<options, is_selected, cursor_memory, multi_select, menu_id,
                   current_row, in_sub_nav, term_height, start_row, end_row,
                   key, cursor_visible, down_prefix, sub_parent, before_key,
                   repaint_strategy, described, static_rendered,
                   prev_dynamic_line_count, prev_term_height,
                   prev_static_signature, last_frame, action_calls,
                   dialog_vars>>

(***************************************************************************)
(* Lines 130-289: one frame.  h is the terminal height reported for this   *)
(* frame; ok is FALSE when a callback of the frame (header_func,           *)
(* dynamic_label, get_item_description_fn, clear_screen_fn,                *)
(* get_terminal_size) raises.  Every exit runs the finally clause.         *)
(***************************************************************************)
Frame(h, ok) ==
    /\ pc = "loop"
    /\ \E flat \in {Flatten(options)} :
       \E exit \in {FrameExit(options, flat, current_row)} :
           CASE exit = "empty" ->
                  /\ ok
                  /\ cursor_memory' = StoreZero(cursor_memory, menu_id)
                  /\ pc' = "returned"
                  /\ result' = ReturnNone
                  /\ cursor_visible' = TRUE
                  /\ end_cursor' = EndedAt(end_cursor, menu_id, NoEntry)
                  /\ UNCHANGED <<current_row, term_height, start_row, end_row,
                                 paint_vars, last_frame, action_calls,
                   dialog_vars>>
             [] exit = "none_selectable" ->
                  /\ ok
                  /\ cursor_memory' = StoreZero(cursor_memory, menu_id)
                  /\ current_row' = current_row % Len(flat)
                  /\ pc' = "returned"
                  /\ result' = ReturnNone
                  /\ cursor_visible' = TRUE
                  /\ end_cursor' = EndedAt(end_cursor, menu_id, NoEntry)
                  /\ UNCHANGED <<term_height, start_row, end_row, paint_vars,
                                 last_frame, action_calls,
                   dialog_vars>>
             [] exit = "no_next" ->
                  /\ ok
                  /\ current_row' = current_row % Len(flat)
                  /\ pc' = "returned"
                  /\ result' = ReturnNone
                  /\ cursor_visible' = TRUE
                  /\ end_cursor' = EndedAt(end_cursor, menu_id, NoEntry)
                  /\ UNCHANGED <<cursor_memory, term_height, start_row,
                                 end_row, paint_vars, last_frame, action_calls,
                   dialog_vars>>
             [] OTHER ->
                  LET cur == NormalizedRow(options, flat, current_row)
                      view == Viewport(cur, Len(flat), h)
                      old == [screen EXCEPT !.lines =
                                 Aged(@, start_row = 0,
                                      end_row - start_row + 2,
                                      end_row = Len(flat))]
                      painted == Paint(repaint_strategy, static_rendered,
                                       prev_dynamic_line_count,
                                       prev_term_height, prev_static_signature,
                                       old, h, in_sub_nav,
                                       DynamicLineCount(view,
                                           GetItemDescription(described,
                                               FlatRow(flat, cur).obj) # ""))
                  IN  /\ current_row' = cur
                      /\ UNCHANGED cursor_memory
                      /\ IF ok
                         THEN \E paint \in {painted} :
                              /\ paint.from <= MaxDrift
                              /\ term_height' = h
                              /\ start_row' = view.start_row
                              /\ end_row' = view.end_row
                              /\ static_rendered' = paint.static_rendered
                              /\ prev_dynamic_line_count' =
                                     paint.prev_dynamic_line_count
                              /\ prev_term_height' = paint.prev_term_height
                              /\ prev_static_signature' =
                                     paint.prev_static_signature
                              /\ screen' = paint.screen
                              /\ UNCHANGED <<action_calls, dialog_vars>>
                              /\ last_frame' =
                                     [renders |-> last_frame.renders + 1,
                                      cleared |-> paint.cleared,
                                      header_calls |-> paint.header_calls,
                                      counter |-> paint.counter,
                                      up |-> paint.up,
                                      from |-> paint.from,
                                      advanced |-> paint.advanced,
                                      shown |-> [current_row |-> cur,
                                                 in_sub_nav |-> in_sub_nav,
                                                 is_selected |-> is_selected]]
                              /\ pc' = "key"
                              /\ UNCHANGED <<result, cursor_visible,
                                             end_cursor>>
                         ELSE /\ pc' = "raised"
                              /\ result' = Raised
                              /\ cursor_visible' = TRUE
                              /\ end_cursor' =
                                     EndedAt(end_cursor, menu_id, NoEntry)
                              /\ UNCHANGED <<term_height, start_row, end_row,
                                             paint_vars, last_frame,
                                             action_calls, dialog_vars>>
    /\ UNCHANGED <<options, is_selected, multi_select, menu_id, in_sub_nav,
                   key, down_prefix, sub_parent, before_key,
                   repaint_strategy, described>>


(***************************************************************************)
(* Line 291 and the handlers of lines 292-395: one key read and handled.   *)
(***************************************************************************)
\* the ENTER handler invoking the action of the item under the cursor
ActionOnEnter(k) == IF k = "ENTER" THEN 1 ELSE 0

\* item actions invoked by the handler of key k: no branch of lines 292-395
\* reads item.action
ActionsInvoked(k) == 0

\* what every handler leaves alone, and the history of the key read
KeyFrame ==
    /\ before_key' = [is_selected |-> is_selected,
                      current_row |-> current_row,
                      in_sub_nav |-> in_sub_nav,
                      cursor_memory |-> cursor_memory,
                      repeat |-> (key' = key)]
    /\ action_calls' = action_calls + ActionsInvoked(key')
    /\ UNCHANGED dialog_vars
    /\ last_frame' = [NoFrameYet EXCEPT !.from = last_frame.from,
                                        !.advanced = last_frame.advanced,
                                        !.shown = last_frame.shown]
    /\ UNCHANGED <<options, multi_select, menu_id, term_height,
                   start_row, end_row, repaint_strategy, described,
                   paint_vars>>

\* UP (d = -1) and DOWN (d = 1), lines 292-323
KeyMove(k, d) ==
    /\ pc = "key"
    /\ key' = k
    /\ down_prefix' = NextPrefix(down_prefix, k)
    /\ LET flat == Flatten(options)
           moved == IF in_sub_nav THEN SubNavStep(flat, current_row, d)
                    ELSE TopNavStep(options, flat, current_row, d)
       IN  \E nxt \in {moved} :
               IF nxt = NoEntry
               THEN /\ pc' = "hung"
                    /\ current_row' = current_row
               ELSE /\ pc' = LoopAgain
                    /\ current_row' = nxt
    /\ KeyFrame
    /\ UNCHANGED <<is_selected, cursor_memory, in_sub_nav, result,
                   cursor_visible, sub_parent, end_cursor>>

KeyUp == KeyMove("UP", -1)

KeyDown == KeyMove("DOWN", 1)

\* SPACE toggling the flag in single-select as well
SpaceTogglesAlways(multi, sel, item) == Toggle(sel, item)

\* the flags after SPACE on a row that opens no SUB_NAV: toggled in
\* multi-select (lines 336-339), left alone in single-select (lines 341-349)
SpaceFlags(multi, sel, item) == IF ~multi THEN sel ELSE Toggle(sel, item)

\* SPACE, lines 325-349
KeySpace ==
    /\ pc = "key"
    /\ key' = "SPACE"
    /\ down_prefix' = NextPrefix(down_prefix, "SPACE")
    /\ pc' = LoopAgain
    /\ LET flat == Flatten(options)
           row == FlatRow(flat, current_row)
           item == row.obj
       IN  IF row.level = 0 /\ HasChildren(options, item)
           THEN /\ in_sub_nav' = TRUE
                /\ current_row' = FirstChildRow(flat, item, current_row)
                /\ sub_parent' = item
                /\ UNCHANGED is_selected
           ELSE /\ is_selected' = SpaceFlags(multi_select, is_selected, item)
                /\ UNCHANGED <<in_sub_nav, current_row, sub_parent>>
    /\ KeyFrame
    /\ UNCHANGED <<cursor_memory, result, cursor_visible, end_cursor>>

\* ENTER, lines 351-381
KeyEnter ==
    /\ pc = "key"
    /\ key' = "ENTER"
    /\ \E flat \in {Flatten(options)} :
       \E row \in {FlatRow(flat, current_row)} :
       \E item \in {row.obj} :
       \E branch \in {EnterBranch(multi_select, IsSelectable(options, row),
                                  row.level, HasChildren(options, item),
                                  in_sub_nav)} :
           CASE branch = "continue" ->
                  /\ pc' = LoopAgain
                  /\ down_prefix' = NextPrefix(down_prefix, "ENTER")
                  /\ UNCHANGED <<cursor_memory, current_row, in_sub_nav, result,
                                 cursor_visible, sub_parent, end_cursor>>
             [] branch = "confirm" ->
                  /\ result' = ReturnList(Collect(options, is_selected))
                  /\ cursor_memory' =
                         PersistCursor(cursor_memory, menu_id, flat, current_row)
                  /\ end_cursor' = EndedAt(end_cursor, menu_id, current_row)
                  /\ pc' = "returned"
                  /\ cursor_visible' = TRUE
                  /\ UNCHANGED <<current_row, in_sub_nav, sub_parent,
                                 down_prefix>>
             [] branch = "enter" ->
                  /\ in_sub_nav' = TRUE
                  /\ current_row' = FirstChildRow(flat, item, current_row)
                  /\ sub_parent' = item
                  /\ pc' = LoopAgain
                  /\ down_prefix' = NextPrefix(down_prefix, "ENTER")
                  /\ UNCHANGED <<cursor_memory, result, cursor_visible,
                                 end_cursor>>
             [] OTHER ->
                  /\ result' = ReturnItem(item)
                  /\ cursor_memory' =
                         PersistCursor(cursor_memory, menu_id, flat, current_row)
                  /\ end_cursor' = EndedAt(end_cursor, menu_id, current_row)
                  /\ pc' = "returned"
                  /\ cursor_visible' = TRUE
                  /\ UNCHANGED <<current_row, in_sub_nav, sub_parent,
                                 down_prefix>>
    /\ KeyFrame
    /\ UNCHANGED is_selected

\* ESC, lines 383-395
KeyEsc ==
    /\ pc = "key"
    /\ key' = "ESC"
    /\ LET flat == Flatten(options)
       IN  IF in_sub_nav
           THEN /\ in_sub_nav' = FALSE
                /\ current_row' = EscRow(flat, current_row)
                /\ sub_parent' = NoParent
                /\ pc' = LoopAgain
                /\ down_prefix' = NextPrefix(down_prefix, "ESC")
                /\ UNCHANGED <<cursor_memory, result, cursor_visible,
                               end_cursor>>
           ELSE /\ cursor_memory' =
                       PersistCursor(cursor_memory, menu_id, flat, current_row)
                /\ end_cursor' = EndedAt(end_cursor, menu_id, current_row)
                /\ result' = ReturnNone
                /\ pc' = "returned"
                /\ cursor_visible' = TRUE
                /\ UNCHANGED <<current_row, in_sub_nav, sub_parent,
                               down_prefix>>
    /\ KeyFrame
    /\ UNCHANGED is_selected

\* an unrecognised key taken for DOWN
OtherKeyMovesDown ==
    KeyMove("OTHER", 1)

\* None, LEFT, RIGHT or any other value: no branch of lines 292-395 is taken
KeyOther ==
    /\ pc = "key"
    /\ key' = "OTHER"
    /\ down_prefix' = NextPrefix(down_prefix, "OTHER")
    /\ pc' = LoopAgain
    /\ KeyFrame
    /\ UNCHANGED <<is_selected, cursor_memory, current_row, in_sub_nav, result,
                   cursor_visible, sub_parent, end_cursor>>

\* the interrupt caught and handled as a cancel: cursor stored, None returned
InterruptCancels ==
    /\ pc = "key"
    /\ pc' = "returned"
    /\ result' = ReturnNone
    /\ cursor_visible' = TRUE
    /\ key' = "CTRL_C"
    /\ cursor_memory' =
           PersistCursor(cursor_memory, menu_id, Flatten(options), current_row)
    /\ end_cursor' = EndedAt(end_cursor, menu_id, current_row)
    /\ KeyFrame
    /\ UNCHANGED <<is_selected, current_row, in_sub_nav, down_prefix,
                   sub_parent>>

\* read_key_fn raises KeyboardInterrupt (Ctrl-C): lines 291, 396-397
KeyInterrupt ==
    /\ pc = "key"
    /\ pc' = "raised"
    /\ result' = Raised
    /\ cursor_visible' = TRUE
    /\ key' = "CTRL_C"
    /\ end_cursor' = EndedAt(end_cursor, menu_id, NoEntry)
    /\ KeyFrame
    /\ UNCHANGED <<is_selected, cursor_memory, current_row, in_sub_nav,
                   down_prefix, sub_parent>>

Next ==
    \/ \E t \in Trees : BuildOptions(t)
    \/ \E m \in BOOLEAN, id \in MenuIds \cup {NoId},
          pre \in SUBSET ItemIds(options) :
              (m \/ pre = {}) /\ Call(m, id, pre, "auto", {})
    \/ InitialClear
    \/ Resume
    \/ \E h \in TermHeights, ok \in BOOLEAN : Frame(h, ok)
    \/ KeyUp
    \/ KeyDown
    \/ KeySpace
    \/ KeyEnter
    \/ KeyEsc
    \/ KeyOther
    \/ KeyInterrupt

Spec == Init /\ [][Next]_vars

(***************************************************************************)
(* SpecView: single-select invocations without menu_id on trees longer     *)
(* than the window, with at most MaxStatic non-selectable rows.            *)
(***************************************************************************)
StaticCount(opts) ==
    Cardinality({id \in ItemIds(opts) : ~ItemOf(opts, id).selectable})

ViewTrees == {t \in TreesOfRows(MaxViewRows) : StaticCount(t) <= MaxStatic}

InitView == InitWith(ViewTrees)

NextView ==
    \/ Call(FALSE, NoId, {}, "auto", {})
    \/ InitialClear
    \/ Resume
    \/ \E h \in ViewHeights, ok \in BOOLEAN : Frame(h, ok)
    \/ KeyUp
    \/ KeyDown
    \/ KeySpace
    \/ KeyEnter
    \/ KeyEsc
    \/ KeyOther
    \/ KeyInterrupt

SpecView == InitView /\ [][NextView]_vars

(***************************************************************************)
(* The selection loop on one long list of MaxLong selectable top-level     *)
(* items without children, in single-select mode, on terminals of several  *)
(* heights, lower and higher than the list is long.                        *)
(***************************************************************************)
LongTree == [i \in 1..MaxLong |-> [selectable |-> TRUE, children |-> <<>>]]

InitLong == InitWith({LongTree})

NextLong ==
    \/ Call(FALSE, NoId, {}, "auto", {})
    \/ InitialClear
    \/ Resume
    \/ \E h \in LongHeights, ok \in BOOLEAN : Frame(h, ok)
    \/ KeyUp
    \/ KeyDown
    \/ KeySpace
    \/ KeyEnter
    \/ KeyEsc
    \/ KeyOther
    \/ KeyInterrupt

SpecLong == InitLong /\ [][NextLong]_vars

(***************************************************************************)
(* The selection loop under each repaint strategy, with items that have a  *)
(* description and items that have none, in single-select mode, on a       *)
(* terminal that is resized between frames.                                *)
(***************************************************************************)
PaintTrees == UNION {TreesOfRows(n) : n \in 0..MaxPaintRows}

InitPaint == InitWith(PaintTrees)

NextPaint ==
    \/ \E strategy \in Strategies, desc \in Descriptions(options) :
          Call(FALSE, NoId, {}, strategy, desc)
    \/ InitialClear
    \/ Resume
    \/ \E h \in PaintHeights, ok \in BOOLEAN : Frame(h, ok)
    \/ KeyUp
    \/ KeyDown
    \/ KeySpace
    \/ KeyEnter
    \/ KeyEsc
    \/ KeyOther
    \/ KeyInterrupt

SpecPaint == InitPaint /\ [][NextPaint]_vars

(***************************************************************************)
(* The cursor store shared by two menus, m1 a single-select menu and m2 a   *)
(* multi-select menu.  Between two invocations the caller builds any other *)
(* tree, longer or shorter than the one before, and calls the engine with  *)
(* either menu_id.                                                         *)
(***************************************************************************)
StoreIds == {"m1", "m2"}

MultiSelectIds == {"m2"}

StoreTrees == {t \in Trees : StaticCount(t) <= MaxStatic}

InitStore == InitOf(StoreTrees, StoreIds)

Rebuild(t) ==
    /\ pc = "idle"
    /\ t # options
    /\ options' = t
    /\ end_cursor' = [id \in DOMAIN end_cursor |-> NoEntry]
    /\ UNCHANGED <<is_selected, cursor_memory, multi_select, menu_id,
                   current_row, in_sub_nav, term_height, start_row, end_row,
                   key, pc, result, cursor_visible, down_prefix, sub_parent,
                   before_key, repaint_strategy, described, paint_vars,
                   last_frame, action_calls,
                   dialog_vars>>

NextStore ==
    \/ \E t \in StoreTrees : Rebuild(t)
    \/ \E id \in StoreIds : Call(id \in MultiSelectIds, id, {}, "auto", {})
    \/ InitialClear
    \/ Resume
    \/ \E h \in TermHeights, ok \in BOOLEAN : Frame(h, ok)
    \/ KeyUp
    \/ KeyDown
    \/ KeySpace
    \/ KeyEnter
    \/ KeyEsc
    \/ KeyOther
    \/ KeyInterrupt

SpecStore == InitStore /\ [][NextStore]_vars

(***************************************************************************)
(* A panel renderer on its own: constructed, rendered with 0 up to         *)
(* MaxPanelLines dynamic lines, with and without force_full, and reset.    *)
(***************************************************************************)
PanelConstruct(cls) ==
    /\ panel' = NewPanelOf(cls)
    /\ UNCHANGED <<menu_vars, ask>>

PanelReset ==
    /\ panel' = Reset(panel)
    /\ UNCHANGED <<menu_vars, ask>>

PanelRender(n, force_full) ==
    /\ panel' = Render(panel, n, force_full)
    /\ UNCHANGED <<menu_vars, ask>>

InitPanel == InitWith({<<>>})

NextPanel ==
    \/ \E cls \in PanelClasses : PanelConstruct(cls)
    \/ PanelReset
    \/ \E n \in 0..MaxPanelLines, force_full \in BOOLEAN :
          PanelRender(n, force_full)

SpecPanel == InitPanel /\ [][NextPanel]_vars

(***************************************************************************)
(* ask_user: the call, the frame of four dynamic lines (lines 133-138),    *)
(* the key read and its handler (lines 139-148).                           *)
(***************************************************************************)
AskCall(default) ==
    /\ ask.pc = "idle"
    /\ ask' = [pc |-> "frame", default |-> default,
               selected |-> InitiallySelected(default), key |-> NoKey,
               result |-> FALSE, last_arrow |-> NoKey]
    /\ panel' = NewPanel
    /\ UNCHANGED menu_vars

AskFrame ==
    /\ ask.pc = "frame"
    /\ panel' = Render(panel, 4, FALSE)
    /\ ask' = [ask EXCEPT !.pc = "key"]
    /\ UNCHANGED menu_vars

AskKey(k) ==
    /\ ask.pc = "key"
    /\ ask' = IF k = "ENTER"
              THEN [ask EXCEPT !.pc = "returned", !.key = k,
                               !.result = (ask.selected = 0)]
              ELSE IF k = "ESC"
              THEN [ask EXCEPT !.pc = "returned", !.key = k,
                               !.result = FALSE]
              ELSE [ask EXCEPT !.pc = "frame", !.key = k,
                               !.selected = SelectedAfter(ask.selected, k),
                               !.last_arrow = IF k \in ArrowKeys THEN k
                                              ELSE ask.last_arrow]
    /\ UNCHANGED <<menu_vars, panel>>

AskDone ==
    /\ ask.pc = "returned"
    /\ ask' = AskIdle
    /\ UNCHANGED <<menu_vars, panel>>

InitAsk == InitWith({<<>>})

NextAsk ==
    \/ \E default \in Defaults : AskCall(default)
    \/ AskFrame
    \/ \E k \in AskKeys : AskKey(k)
    \/ AskDone

SpecAsk == InitAsk /\ [][NextAsk]_vars

(***************************************************************************)
(* Properties of the selection loop.                                       *)
(***************************************************************************)
\* the row under the cursor and the rows of the tree
CursorRow == FlatRow(Flatten(options), current_row)

RowCount == Len(Flatten(options))

\* C1: in multi-select mode, the list ENTER returns holds exactly the items,
\* top-level and children alike, whose is_selected flag is true at that
\* moment, each of them once.
C1_EnterReturnsSelected ==
    (pc = "returned" /\ result.kind = "list") =>
        /\ multi_select /\ key = "ENTER"
        /\ {result.items[i] : i \in DOMAIN result.items} = is_selected
        /\ Len(result.items) = Cardinality(is_selected)

\* a returned list with a top-level item and a child in it and an item left out
C1_Witness ==
    /\ pc = "returned" /\ result.kind = "list"
    /\ \E i, j \in DOMAIN result.items :
           result.items[i][2] = 0 /\ result.items[j][2] > 0
    /\ ItemIds(options) \ is_selected # {}

\* a tree of selectable top-level items without children
PlainTree ==
    /\ Len(options) > 0
    /\ \A i \in DOMAIN options :
           options[i].selectable /\ Len(options[i].children) = 0

\* C2: in single-select mode ENTER on a row without children returns the item
\* under the cursor; on a tree of n selectable top-level items without
\* children, in an invocation that started on row 0, j DOWN keys followed by
\* ENTER return items[j mod n].
C2_EnterReturnsCursorItem ==
    [][(pc = "key" /\ key' = "ENTER" /\ ~multi_select
          /\ ~HasChildren(options, CursorRow.obj)) =>
         /\ pc' = "returned"
         /\ result' = ReturnItem(CursorRow.obj)
         /\ (PlainTree /\ InitialCursor(cursor_memory, menu_id) = 0
               /\ down_prefix >= 0) =>
                result'.item = <<(down_prefix % Len(options)) + 1, 0>>]_vars

\* three DOWN keys and ENTER on two plain items return the second one
C2_Witness ==
    /\ pc = "returned" /\ key = "ENTER" /\ ~multi_select /\ menu_id = NoId
    /\ PlainTree /\ Len(options) = 2 /\ down_prefix = 3
    /\ result = ReturnItem(<<2, 0>>)

C4_MultiEnterConfirms ==
    [][(pc = "key" /\ key' = "ENTER" /\ multi_select) =>
         /\ pc' = "returned" /\ result'.kind = "list"
         /\ result'.items = Collect(options, is_selected)
         /\ in_sub_nav' = in_sub_nav /\ current_row' = current_row]_vars

\* a list returned by ENTER in TOP_NAV on a row that has children
C4_Witness ==
    /\ pc = "returned" /\ key = "ENTER" /\ multi_select /\ ~in_sub_nav
    /\ result.kind = "list"
    /\ CursorRow.level = 0 /\ HasChildren(options, CursorRow.obj)

\* C5: ESC in TOP_NAV returns None; ESC in SUB_NAV does not return: the engine
\* is back in TOP_NAV with the cursor on the row of the parent whose children
\* were being navigated.
C5_EscBackToParent ==
    [][(pc = "key" /\ key' = "ESC") =>
         IF in_sub_nav
         THEN /\ pc' = "loop" /\ result' = Pending /\ ~in_sub_nav'
              /\ current_row' = RowOfItem(Flatten(options), sub_parent)
         ELSE pc' = "returned" /\ result' = ReturnNone]_vars

\* nothing to select: no row at all, or no selectable row
NothingSelectable ==
    RowCount = 0 \/ ~AnySelectable(options, Flatten(options))

\* C6: with an empty list, or a list without a selectable row, the
\* invocation never waits for a key: the top of the loop returns None at once
\* and no key has been read.
C6_NothingToSelect ==
    /\ [](NothingSelectable => (key = NoKey /\ pc \notin {"key", "hung"}))
    /\ [][(pc = "loop" /\ NothingSelectable) =>
            (pc' = "returned" /\ result' = ReturnNone /\ key' = NoKey)]_vars

\* None returned, without a key read, for a list of non-selectable rows
C6_Witness ==
    /\ pc = "returned" /\ result = ReturnNone /\ key = NoKey
    /\ RowCount > 1 /\ ~AnySelectable(options, Flatten(options))

\* C7: when an invocation is over, by return or by exception, the cursor-show
\* sequence has been written after the cursor-hide one.
C7_CursorShownOnExit ==
    pc \in {"returned", "raised"} => cursor_visible

\* the first frame of an invocation is on screen and no key has been read
FirstFrame == pc = "key" /\ key = NoKey

\* C8 as stated: after an invocation with a menu_id has ended by ENTER or ESC
\* on flat index k, the next invocation with the same menu_id and the same
\* items starts with its cursor on k, whether row k is a top-level row or a
\* child row.
C8_ResumesOnLastRow ==
    (FirstFrame /\ menu_id \in MenuIds /\ end_cursor[menu_id] # NoEntry) =>
        current_row = end_cursor[menu_id]

\* C8: after an invocation with a menu_id has ended by ENTER or ESC on flat
\* index k, the next invocation with the same menu_id and the same items
\* starts on k when row k is a top-level row; when row k is a child row the
\* store holds the row of its parent, and the invocation starts on the parent
\* row, or on the next selectable row after it when the parent is not
\* selectable.
C8_ResumesOnTopLevelRow ==
    (FirstFrame /\ menu_id \in MenuIds /\ end_cursor[menu_id] # NoEntry) =>
        LET flat == Flatten(options)
            k == end_cursor[menu_id]
            parent_row == RowOfItem(flat, FlatRow(flat, k).parent)
        IN  IF FlatRow(flat, k).level = 0
            THEN cursor_memory[menu_id] = k /\ current_row = k
            ELSE /\ cursor_memory[menu_id] = parent_row
                 /\ parent_row < k
                 /\ current_row =
                        IF IsSelectable(options, FlatRow(flat, parent_row))
                        THEN parent_row
                        ELSE FindNextSelectable(options, flat, parent_row, 1)

\* the invocation before ended on the last of three top-level rows and this
\* one shows its first frame with the cursor there
C8_Witness ==
    /\ FirstFrame /\ menu_id \in MenuIds
    /\ Len(options) = 3 /\ end_cursor[menu_id] = 2 /\ current_row = 2

\* C9 as stated: when the menu_id has an entry in the store and the list has
\* as many rows as when the entry was written, the cursor of the first frame
\* is the stored row.
C9_FirstFrameOnStoredRow ==
    (FirstFrame /\ menu_id \in MenuIds /\ cursor_memory[menu_id] # NoEntry) =>
        current_row = cursor_memory[menu_id]

\* C9: when the menu_id has an entry in the store, the list has as many rows
\* as when the entry was written and the stored row is selectable, the cursor
\* of the first frame is the stored row.
C9_FirstFrameOnSelectableStoredRow ==
    (FirstFrame /\ menu_id \in MenuIds /\ cursor_memory[menu_id] # NoEntry) =>
        /\ cursor_memory[menu_id] < RowCount
        /\ IsSelectable(options, FlatRow(Flatten(options),
                                         cursor_memory[menu_id])) =>
               current_row = cursor_memory[menu_id]

\* a first frame on stored row 2, a child row, the entry written for another
\* tree of three rows
C9_Witness ==
    /\ FirstFrame /\ menu_id \in MenuIds
    /\ cursor_memory[menu_id] = 2 /\ current_row = 2
    /\ end_cursor[menu_id] = NoEntry /\ CursorRow.level = 1

\* C10: in every frame rendered, and so at every key read, the cursor is on a
\* selectable row of the list and inside the window: start_row <= current_row
\* < end_row.
C10_CursorSelectableInWindow ==
    pc = "key" =>
        /\ current_row \in 0..(RowCount - 1)
        /\ IsSelectable(options, CursorRow)
        /\ start_row <= current_row /\ current_row < end_row

\* a scrolled window with the cursor on its last row, after a key, in a list
\* with a non-selectable row
C10_Witness ==
    /\ pc = "key" /\ key # NoKey
    /\ start_row > 0 /\ current_row = end_row - 1
    /\ StaticCount(options) > 0

\* C11: the flattened list holds every top-level item and every child exactly
\* once; top-level items are at level 0 in declaration order, without parent;
\* the children of a parent are at level 1, in declaration order, right after
\* their parent and before the next top-level item, each with the parent as
\* its back-link.  The tree is the same during an invocation, so the list
\* is looked at for every tree up to the first key read.
C11_FlattenOrder ==
    key = NoKey =>
    LET flat == Flatten(options)
        At(id) == RowOfItem(flat, id)
    IN  /\ Len(flat) = Cardinality(ItemIds(options))
        /\ {flat[r].obj : r \in DOMAIN flat} = ItemIds(options)
        /\ \A i \in DOMAIN options :
               /\ FlatRow(flat, At(<<i, 0>>)).level = 0
               /\ FlatRow(flat, At(<<i, 0>>)).parent = NoParent
               /\ \A j \in 1..Len(options[i].children) :
                      /\ At(<<i, j>>) = At(<<i, 0>>) + j
                      /\ FlatRow(flat, At(<<i, j>>)).level = 1
                      /\ FlatRow(flat, At(<<i, j>>)).parent = <<i, 0>>
               /\ i < Len(options) =>
                      At(<<i + 1, 0>>) =
                          At(<<i, 0>>) + Len(options[i].children) + 1

\* a frame of a list in which a parent with a child comes before another
\* top-level item
C11_Witness ==
    /\ FirstFrame
    /\ Len(options) > 1 /\ Len(options[1].children) > 0

\* C12: in multi-select mode, a SPACE that follows a SPACE pressed on a
\* childless top-level row, or on a child row in SUB_NAV, leaves every
\* is_selected flag, the cursor row and the navigation mode as they were
\* before the first of the two; so does any even number of SPACE keys.
C12_DoubleSpaceRestores ==
    [][(pc = "key" /\ key = "SPACE" /\ key' = "SPACE" /\ multi_select
          /\ LET first == FlatRow(Flatten(options), before_key.current_row)
             IN  \/ first.level = 0 /\ ~HasChildren(options, first.obj)
                 \/ first.level = 1 /\ before_key.in_sub_nav) =>
         /\ pc' = "loop"
         /\ is_selected' = before_key.is_selected
         /\ current_row' = before_key.current_row
         /\ in_sub_nav' = before_key.in_sub_nav]_vars

\* the second of two SPACE keys has cleared the flag of a child in SUB_NAV
\* that the first one had set, another item staying selected
C12_Witness ==
    /\ pc = "loop" /\ multi_select /\ in_sub_nav
    /\ key = "SPACE" /\ before_key.repeat
    /\ CursorRow.level = 1 /\ before_key.current_row = current_row
    /\ CursorRow.obj \notin is_selected
    /\ before_key.is_selected = is_selected \cup {CursorRow.obj}
    /\ is_selected # {}

\* row r is a selectable level-0 row
TopSelectable(r) ==
    LET row == FlatRow(Flatten(options), r)
    IN  row.level = 0 /\ IsSelectable(options, row)

\* row to is the first selectable level-0 row met from row from in direction
\* d, going round the list, row from itself coming last
FirstTopSelectable(from, to, d) ==
    LET dist == (d * (to - from)) % RowCount
        steps == IF dist = 0 THEN RowCount ELSE dist
    IN  /\ TopSelectable(to)
        /\ \A k \in 1..(steps - 1) :
               ~TopSelectable((from + d * k) % RowCount)

\* C14: in TOP_NAV, DOWN leaves the cursor on the next row after the current
\* one, in flat order and wrapping from the last row to the first, that is
\* level 0 and selectable, and UP on the previous such row, wrapping from the
\* first to the last; no child row and no non-selectable row is the
\* destination.
C14_TopNavMove ==
    (pc = "loop" /\ key \in {"UP", "DOWN"} /\ ~before_key.in_sub_nav) =>
        /\ ~in_sub_nav
        /\ FirstTopSelectable(before_key.current_row, current_row,
                              IF key = "DOWN" THEN 1 ELSE -1)

\* UP from the first row has wrapped to the last row, over a row that is not
\* a selectable level-0 row
C14_Witness ==
    /\ pc = "loop" /\ key = "UP" /\ ~in_sub_nav
    /\ before_key.current_row = 0 /\ current_row = RowCount - 2
    /\ ~TopSelectable(RowCount - 1)

\* row r is a child row of the item SUB_NAV was entered from
ChildOfSubParent(r) ==
    LET row == FlatRow(Flatten(options), r)
    IN  row.level = 1 /\ row.parent = sub_parent

\* C15: in SUB_NAV, when UP or DOWN is read with the cursor on a child of
\* the parent, the cursor at the next key read is on a child of that parent
\* again, also when some of the children are not selectable.
C15_SubNavStaysInChildren ==
    (pc = "key" /\ key \in {"UP", "DOWN"} /\ in_sub_nav
        /\ before_key.in_sub_nav
        /\ ChildOfSubParent(before_key.current_row)) =>
        ChildOfSubParent(current_row)

\* the row that was under the cursor when the last key was read
RowBeforeKey == FlatRow(Flatten(options), before_key.current_row)

\* the handler of the last key has changed neither cursor, mode, selection
\* flags nor cursor store
NothingChangedByKey ==
    /\ current_row = before_key.current_row
    /\ in_sub_nav = before_key.in_sub_nav
    /\ is_selected = before_key.is_selected
    /\ cursor_memory = before_key.cursor_memory

\* the handler of the last key has entered SUB_NAV on the row that was under
\* the cursor, with the cursor on its first child, and changed nothing else
EnteredSubNavByKey ==
    /\ in_sub_nav
    /\ CursorRow.obj = <<RowBeforeKey.obj[1], 1>>
    /\ is_selected = before_key.is_selected
    /\ cursor_memory = before_key.cursor_memory

\* the handler of the last key has flipped the flag of the item that was
\* under the cursor and changed nothing else
FlippedByKey ==
    /\ current_row = before_key.current_row
    /\ in_sub_nav = before_key.in_sub_nav
    /\ is_selected # before_key.is_selected
    /\ (is_selected \ before_key.is_selected)
           \cup (before_key.is_selected \ is_selected) = {RowBeforeKey.obj}
    /\ cursor_memory = before_key.cursor_memory

\* C16: in multi-select mode, SPACE in TOP_NAV on a row with children enters
\* SUB_NAV for that row with the cursor on its first child; SPACE in TOP_NAV
\* on a row without children flips the flag of that row and leaves cursor
\* and mode alone; SPACE in SUB_NAV flips the flag of the item under the
\* cursor and of no other item.
C16_MultiSelectSpace ==
    (pc = "loop" /\ key = "SPACE" /\ multi_select) =>
        IF before_key.in_sub_nav THEN FlippedByKey
        ELSE IF HasChildren(options, RowBeforeKey.obj) THEN EnteredSubNavByKey
        ELSE FlippedByKey /\ ~in_sub_nav

\* C17: in single-select mode, SPACE in TOP_NAV on a row with children enters
\* SUB_NAV for that row with the cursor on its first child; SPACE in TOP_NAV
\* on a row without children, and SPACE in SUB_NAV, changes neither cursor,
\* mode, selection flags nor cursor store, and the engine does not return.
C17_SingleSelectSpace ==
    (pc = "loop" /\ key = "SPACE" /\ ~multi_select) =>
        /\ result = Pending
        /\ IF ~before_key.in_sub_nav /\ HasChildren(options, RowBeforeKey.obj)
           THEN EnteredSubNavByKey
           ELSE NothingChangedByKey

\* C18: when the key read raises the interrupt, in TOP_NAV or in SUB_NAV, the
\* invocation ends at once by raising: no value is returned, the cursor store
\* and every selection flag are as they were when the key was read, cursor
\* and mode are untouched, no frame follows, and the terminal cursor is shown.
C18_InterruptPropagates ==
    key = "CTRL_C" =>
        /\ pc = "raised"
        /\ result = Raised
        /\ NothingChangedByKey
        /\ cursor_visible

C18_Witness ==
    /\ key = "CTRL_C" /\ pc = "raised"
    /\ in_sub_nav /\ multi_select /\ is_selected # {}
    /\ menu_id # NoId

\* C19: a key read that yields None or a value outside UP, DOWN, SPACE, ENTER
\* and ESC changes neither the cursor row, in_sub_nav, any selection flag nor
\* the cursor store, raises nothing and returns nothing: the loop goes on,
\* and its next frame is rendered, in either mode and navigation state.
C19_OtherKeyNoOp ==
    /\ []((pc = "loop" /\ key = "OTHER") =>
             /\ NothingChangedByKey
             /\ result = Pending
             /\ FrameExit(options, Flatten(options), current_row) = "render")
    /\ [][(pc = "key" /\ key' = "OTHER") => pc' = "loop"]_vars

C19_Witness ==
    /\ pc = "loop" /\ key = "OTHER"
    /\ in_sub_nav /\ multi_select /\ is_selected # {}
    /\ menu_id # NoId /\ before_key.repeat

\* C20: in every rendered frame the window holds min(total rows, max(5,
\* terminal height - 15)) rows and 0 <= start_row <= end_row <= total rows;
\* on a terminal of height 20 the list of MaxLong flat rows shows exactly 5
\* rows wherever the cursor is.
C20_ViewportSize ==
    pc = "key" =>
        LET most == IF term_height - 15 > 5 THEN term_height - 15 ELSE 5
            shown == end_row - start_row
        IN  /\ MaxVisibleItems(term_height) = most
            /\ shown = (IF RowCount < most THEN RowCount ELSE most)
            /\ 0 <= start_row /\ start_row <= end_row /\ end_row <= RowCount
            /\ (term_height = 20 /\ RowCount = MaxLong) => shown = 5

C20_Witness ==
    /\ pc = "key" /\ term_height = 20 /\ RowCount = MaxLong
    /\ current_row = MaxLong - 1
    /\ end_row = MaxLong /\ start_row = MaxLong - 5

\* the dynamic lines of the frame that has just been rendered
FrameLines ==
    DynamicLines(options, Flatten(options), current_row,
                 [start_row |-> start_row, end_row |-> end_row],
                 multi_select, is_selected, described)

\* C13: under every repaint strategy the screen at each key read is the
\* one a full repaint leaves: the static block of the current navigation
\* mode followed by exactly the dynamic lines of the frame just rendered,
\* with no line of an earlier frame left, also when the frame has fewer
\* lines than the one before it.
C13_RepaintEquivalent ==
    pc = "key" =>
        /\ screen.static = StaticSignature(in_sub_nav)
        /\ Visible(screen.lines) = [j \in 1..Len(FrameLines) |-> j]

\* C21: in every frame the marker of rows hidden above is drawn exactly when
\* start_row > 0 and counts the rows before start_row that have the level of
\* the cursor row; the marker of rows hidden below is drawn exactly when
\* end_row < total rows and counts the rows from end_row on that have the
\* level of the cursor row.  Rows of the other level are not counted.
C21_ScrollMarkers ==
    pc = "key" =>
        LET flat == Flatten(options)
            level == CursorRow.level
            top == FrameLines[1]
            bottom == FrameLines[end_row - start_row + 2]
            above == {r \in 0..(start_row - 1) : FlatRow(flat, r).level = level}
            below == {r \in end_row..(Len(flat) - 1) :
                         FlatRow(flat, r).level = level}
        IN  /\ top.kind = "above" <=> start_row > 0
            /\ top.kind = "above" => top.n = Cardinality(above)
            /\ top.kind # "above" => top = Blank
            /\ bottom.kind = "below" <=> end_row < Len(flat)
            /\ bottom.kind = "below" => bottom.n = Cardinality(below)
            /\ bottom.kind # "below" => bottom = Blank

\* a frame whose window starts below row 0 with the cursor on a child row:
\* the parent row hidden above is not counted
C21_Witness ==
    /\ pc = "key" /\ start_row > 0
    /\ CursorRow.level = 1
    /\ FlatRow(Flatten(options), 0).level = 0
    /\ FrameLines[1].kind = "above"
    /\ FrameLines[1].n < start_row

\* C22: under an incremental strategy a frame clears the screen and redraws
\* the static block, calling header_func once, exactly when it is the first
\* frame of the invocation, or the navigation mode of the static block
\* differs from that of the frame before, or the terminal height differs
\* from that of the frame before; any other frame neither clears the screen
\* nor calls header_func.  After a static repaint the dynamic-line counter
\* is 0 when the dynamic lines are written.
C22_StaticRepaint ==
    [][(pc = "loop" /\ pc' = "key"
          /\ repaint_strategy \in {"auto", "incremental"}) =>
         /\ last_frame'.cleared <=>
                \/ key = NoKey
                \/ in_sub_nav # before_key.in_sub_nav
                \/ term_height' # term_height
         /\ last_frame'.header_calls = (IF last_frame'.cleared THEN 1 ELSE 0)
         /\ last_frame'.cleared =>
                /\ last_frame'.counter = 0
                /\ last_frame'.up = 0
                /\ screen'.static = StaticSignature(in_sub_nav)]_vars

\* a frame that has repainted the static block because the terminal height
\* changed, in the same navigation mode as the frame before
C22_Witness ==
    /\ pc = "key" /\ repaint_strategy = "incremental"
    /\ key # NoKey /\ in_sub_nav = before_key.in_sub_nav
    /\ last_frame.cleared /\ last_frame.header_calls = 1

\* C23: under an incremental strategy, a frame that does not repaint the
\* static block moves the cursor up by as many lines as the cursor advanced
\* while the frame before was written, its dynamic lines and the surplus
\* lines it blanked, and so writes its first dynamic line on the screen line
\* on which the frame before wrote its own, whether the frames grow, stay
\* equal or shrink.
C23_SameFirstLine ==
    [][(pc = "loop" /\ pc' = "key"
          /\ repaint_strategy \in {"auto", "incremental"}
          /\ ~last_frame'.cleared) =>
         /\ last_frame'.up = last_frame.advanced
         /\ last_frame'.from = last_frame.from]_vars

\* C24: frames and key reads alternate: at every key read exactly one frame
\* has been rendered since the key before (or since the call), and it shows
\* the cursor, mode and selection flags left by the keys read so far; away
\* from a key read no frame has been rendered since the last key, so none
\* follows the key that ends the invocation.  This includes the ENTER that
\* enters SUB_NAV.
C24_FramesAndKeysAlternate ==
    /\ pc = "key" =>
           /\ last_frame.renders = 1
           /\ last_frame.shown = [current_row |-> current_row,
                                  in_sub_nav |-> in_sub_nav,
                                  is_selected |-> is_selected]
    /\ pc # "key" => last_frame.renders = 0

\* the key read that follows the ENTER that entered SUB_NAV, after a frame
\* that shows the cursor on the first child
C24_Witness ==
    /\ pc = "key" /\ key = "ENTER"
    /\ in_sub_nav /\ ~before_key.in_sub_nav
    /\ last_frame.renders = 1 /\ last_frame.shown.in_sub_nav
    /\ CursorRow.level = 1

\* C25: an invocation without menu_id starts with its cursor on row 0
\* whatever the cursor store holds, and from the call to every exit
\* (confirm, cancel, immediate return) the cursor store is the store the
\* call found: no entry changed, none added.
C25_NoMenuIdNoMemory ==
    (menu_id = NoId /\ pc # "idle") =>
        /\ cursor_memory = before_key.cursor_memory
        /\ DOMAIN cursor_memory = MenuIds
        /\ pc = "clear" => current_row = 0

\* an invocation without menu_id returned after a key, while the store
\* holds a row other than 0 left by an earlier invocation
C25_Witness ==
    /\ menu_id = NoId /\ pc = "returned" /\ key \in {"ENTER", "ESC"}
    /\ \E m \in MenuIds : cursor_memory[m] > 0

\* C26: with a menu_id, after a return by ENTER (single-select or
\* multi-select) or by ESC in TOP_NAV the store has an entry for that
\* menu_id, the row of the cursor or of its parent, also when there was
\* none before; while the invocation has not returned, the store is the
\* store found at the call, so UP, DOWN, SPACE, ESC in SUB_NAV and the ENTER
\* that enters SUB_NAV write nothing; and the entry of every other menu_id
\* is the one found at the call in every position of the invocation.
C26_StoreWrittenOnReturn ==
    (menu_id # NoId /\ pc # "idle") =>
        LET flat == Flatten(options)
            row == FlatRow(flat, current_row)
        IN  /\ (pc = "returned" /\ key \in {"ENTER", "ESC"}) =>
                   /\ cursor_memory[menu_id] # NoEntry
                   /\ cursor_memory[menu_id] =
                          IF row.level = 0 THEN current_row
                          ELSE RowOfItem(flat, row.parent)
            /\ pc \in {"clear", "loop", "key", "hung"} =>
                   cursor_memory = before_key.cursor_memory
            /\ \A m \in DOMAIN cursor_memory \ {menu_id} :
                   cursor_memory[m] = before_key.cursor_memory[m]

\* an invocation with menu_id m2, which had no entry, cancelled on a row
\* other than 0 after an ESC that left SUB_NAV, while m1 keeps its row
C26_Witness ==
    /\ pc = "returned" /\ key = "ESC" /\ menu_id = "m2"
    /\ before_key.cursor_memory["m2"] = NoEntry
    /\ cursor_memory["m2"] > 0
    /\ cursor_memory["m1"] > 0 /\ cursor_memory["m1"] # cursor_memory["m2"]
    /\ before_key.repeat

\* distance between two row indexes
Distance(a, b) == IF a >= b THEN a - b ELSE b - a

\* C27: when the row remembered for the menu_id is not a row of the current
\* list or is not selectable, the cursor of the first frame is a selectable
\* row, it is not the remembered index, and no selectable row of the list
\* is nearer to the remembered index than it.
C27_NearestSelectable ==
    (FirstFrame /\ menu_id # NoId /\ cursor_memory[menu_id] # NoEntry) =>
        LET flat == Flatten(options)
            stored == cursor_memory[menu_id]
            usable == stored < Len(flat) /\ IsSelectable(options, FlatRow(flat, stored))
            candidates == {r \in 0..(Len(flat) - 1) : IsSelectable(options, FlatRow(flat, r))}
        IN  ~usable =>
               /\ current_row \in candidates
               /\ current_row # stored
               /\ \A r \in candidates :
                      Distance(current_row, stored) <= Distance(r, stored)

\* C28: from the call to the return or raise the engine has invoked no item
\* action, whatever keys it has handled: UP, DOWN, SPACE, ESC, the ENTER that
\* enters SUB_NAV and any other key.
C28_NoActionInvoked ==
    pc # "idle" => action_calls = 0

\* an invocation that handled the ENTER that entered SUB_NAV and then a
\* second ENTER on a child row, which returned
C28_Witness ==
    /\ pc = "returned" /\ key = "ENTER" /\ before_key.repeat
    /\ in_sub_nav /\ CursorRow.level = 1
    /\ action_calls = 0

\* C29: while the engine runs, the item tree (the top-level list, every
\* item's children and selectable flag) and the items' descriptions stay as
\* the caller passed them; only is_selected flags change, and in
\* single-select mode no flag changes either.
C29_OnlyFlagsChange ==
    [][(pc \in {"clear", "loop", "key"}) =>
         /\ options' = options
         /\ described' = described
         /\ (~multi_select => is_selected' = is_selected)]_vars

\* single-select: SPACE was handled on a row without children and no flag
\* is set
C29_Witness ==
    /\ ~multi_select /\ pc = "loop" /\ key = "SPACE"
    /\ ~HasChildren(options, CursorRow.obj)
    /\ is_selected = {}

\* the positions of the description lines in the frame on screen
DescriptionLines == {j \in 1..Len(FrameLines) : FrameLines[j].kind = "description"}

C32_TopNavSearchEnds ==
    [][(pc = "key" /\ ~in_sub_nav /\ key' \in {"UP", "DOWN"}) =>
         pc' = LoopAgain]_vars

\* C33 as stated: whenever the engine has returned with a menu_id, the value
\* it wrote into the store is an index of the flattened list and the index
\* of a level-0 row, the parent's when the cursor is on a child row.
C33_StoredRowIsTopLevel ==
    (pc = "returned" /\ menu_id # NoId) =>
        LET flat == Flatten(options)
            stored == cursor_memory[menu_id]
        IN  /\ stored \in 0..(Len(flat) - 1)
            /\ FlatRow(flat, stored).level = 0
            /\ (key \in {"ENTER", "ESC"} /\ CursorRow.level = 1) =>
                   stored = RowOfItem(flat, CursorRow.parent)

\* C33: whenever the engine has returned with a menu_id for a list that is
\* not empty, the value it wrote into the store is an index of the flattened
\* list and the index of a level-0 row, the parent's when the cursor is on a
\* child row; for an empty list the value written is 0.
C33_StoredRowIsTopLevelOrZero ==
    (pc = "returned" /\ menu_id # NoId) =>
        LET flat == Flatten(options)
            stored == cursor_memory[menu_id]
        IN  IF Len(flat) = 0 THEN stored = 0
            ELSE /\ stored \in 0..(Len(flat) - 1)
                 /\ FlatRow(flat, stored).level = 0
                 /\ (key \in {"ENTER", "ESC"} /\ CursorRow.level = 1) =>
                        stored = RowOfItem(flat, CursorRow.parent)

\* returned by ENTER on a child row: the store holds the row of the parent
C33_Witness ==
    /\ pc = "returned" /\ menu_id # NoId /\ key = "ENTER"
    /\ CursorRow.level = 1
    /\ cursor_memory[menu_id] < current_row
    /\ FlatRow(Flatten(options), cursor_memory[menu_id]).obj = CursorRow.parent

\* C34: whenever the engine waits for a key in TOP_NAV, the cursor is on a
\* level-0 row, on the first frame and after every key.
C34_TopNavOnTopLevelRow ==
    (pc = "key" /\ ~in_sub_nav) => CursorRow.level = 0

\* C35: whenever the engine waits for a key in SUB_NAV, the cursor is on a
\* level-1 row whose parent is the item from whose row SUB_NAV was entered.
C35_SubNavOnChildOfParent ==
    (pc = "key" /\ in_sub_nav) =>
        /\ CursorRow.level = 1
        /\ CursorRow.parent = sub_parent

\* C36: ESC read in TOP_NAV makes the engine return None; ESC read in
\* SUB_NAV leads to TOP_NAV, so that a second ESC right after it makes the
\* engine return None; and the engine is in no state from which ESC cannot
\* end the menu: while it has not returned or raised, it is waiting for a key
\* or on its way to the next frame.
C36_EscEndsTheMenu ==
    /\ (key = "ESC" /\ ~before_key.in_sub_nav) =>
           (pc = "returned" /\ result = ReturnNone)
    /\ (key = "ESC" /\ before_key.in_sub_nav) =>
           (pc \in {"loop", "key", "raised"} /\ ~in_sub_nav)
    /\ (key = "ESC" /\ before_key.repeat) =>
           (pc = "returned" /\ result = ReturnNone)
    /\ pc \in {"idle", "clear", "loop", "key", "returned", "raised"}

\* C37: in single-select mode the item ENTER returns has no children: it is
\* a childless top-level item or a child.
C37_ReturnedItemIsLeaf ==
    (pc = "returned" /\ ~multi_select /\ result.kind = "item") =>
        ~HasChildren(options, result.item)

\* the cursor at the next key read when UP (d = -1) or DOWN (d = 1) is read
\* with the cursor on row r: the handler (lines 292-323) and the top of the
\* next frame (lines 141-152); NoEntry when the handler does not end
NextCursor(r, d, sub_nav) ==
    LET flat == Flatten(options)
        moved == IF sub_nav THEN SubNavStep(flat, r, d)
                 ELSE TopNavStep(options, flat, r, d)
    IN  IF moved = NoEntry THEN NoEntry
        ELSE NormalizedRow(options, flat, moved)

\* the cursor after n such keys
RECURSIVE CursorAfter(_, _, _, _)
CursorAfter(r, d, sub_nav, n) ==
    IF n = 0 \/ r = NoEntry THEN r
    ELSE CursorAfter(NextCursor(r, d, sub_nav), d, sub_nav, n - 1)

\* the rows a full cycle of DOWN keys visits: the selectable level-0 rows in
\* TOP_NAV, the children of the parent in SUB_NAV
CycleLength ==
    LET flat == Flatten(options)
    IN  IF in_sub_nav
        THEN Cardinality({r \in 0..(Len(flat) - 1) : ChildOfSubParent(r)})
        ELSE Cardinality({r \in 0..(Len(flat) - 1) : TopSelectable(r)})

\* C38: when UP or DOWN has been read in TOP_NAV with the cursor on a
\* selectable level-0 row, or in SUB_NAV with the cursor on a child of the
\* parent, the opposite key brings the cursor back to the row it was on, and
\* after DOWN as many DOWN keys as complete the cycle (the selectable
\* level-0 rows in TOP_NAV, the children of the parent in SUB_NAV) bring it
\* back to that row.
C38_MovesReversibleAndCyclic ==
    (/\ pc = "key" /\ key \in {"UP", "DOWN"}
     /\ in_sub_nav = before_key.in_sub_nav
     /\ IF in_sub_nav THEN ChildOfSubParent(before_key.current_row)
        ELSE TopSelectable(before_key.current_row)) =>
        LET d == IF key = "DOWN" THEN 1 ELSE -1
        IN  /\ NextCursor(current_row, 0 - d, in_sub_nav) = before_key.current_row
            /\ key = "DOWN" =>
                   CursorAfter(current_row, 1, in_sub_nav, CycleLength - 1)
                       = before_key.current_row


\* C31: ask_user starts on 'No' when default is 'n' and on 'Yes' for every
\* other default; LEFT or UP select 'Yes', RIGHT or DOWN select 'No', any
\* other key changes nothing, so the selection is that of the last arrow key
\* or, without one, of the default; ENTER returns True exactly when 'Yes' is
\* selected, ESC returns False, and ENTER right after default 'n' returns
\* False.
C31_AskUser ==
    /\ ask.pc # "idle" =>
           ask.selected = IF ask.last_arrow \in {"LEFT", "UP"} THEN 0
                          ELSE IF ask.last_arrow \in {"RIGHT", "DOWN"} THEN 1
                          ELSE IF ask.default = "n" THEN 1 ELSE 0
    /\ ask.pc = "returned" =>
           /\ ask.key \in {"ENTER", "ESC"}
           /\ ask.key = "ENTER" => ask.result = (ask.selected = 0)
           /\ ask.key = "ESC" => ask.result = FALSE
    /\ (ask.pc = "returned" /\ ask.key = "ENTER" /\ ask.last_arrow = NoKey
            /\ ask.default = "n") => ask.result = FALSE

\* C31 (amended): as C31, but ask_user starts on 'No' exactly when the
\* default, stripped of white space and lower-cased, is 'n' (so also for 'N'
\* and ' n '), and on 'Yes' for every other default.
C31_AskUserNormalized ==
    /\ ask.pc # "idle" =>
           ask.selected = IF ask.last_arrow \in {"LEFT", "UP"} THEN 0
                          ELSE IF ask.last_arrow \in {"RIGHT", "DOWN"} THEN 1
                          ELSE IF LowerDefault(StripDefault(ask.default)) = "n"
                               THEN 1 ELSE 0
    /\ ask.pc = "returned" =>
           /\ ask.key \in {"ENTER", "ESC"}
           /\ ask.key = "ENTER" => ask.result = (ask.selected = 0)
           /\ ask.key = "ESC" => ask.result = FALSE
    /\ (ask.pc = "returned" /\ ask.key = "ENTER" /\ ask.last_arrow = NoKey
            /\ ask.default = "n") => ask.result = FALSE

C31_Witness ==
    /\ ask.pc = "returned"
    /\ ask.key = "ENTER"
    /\ ask.default = "N"
    /\ ask.last_arrow = NoKey
    /\ ask.result = FALSE

\* C39: the first render after construction, the first render after reset()
\* and every render with force_full clear the screen once, draw the static
\* block once and move the cursor up by zero lines; every other render clears
\* nothing and draws no static block; after every render
\* prev_dynamic_line_count is the number of dynamic lines passed and
\* static_rendered is true.
C39_PanelRender ==
    panel.op = "render" =>
        /\ (panel.since = 1 \/ panel.force_full) =>
               /\ panel.clears = 1
               /\ panel.static_draws = 1
               /\ panel.up = 0
        /\ ~(panel.since = 1 \/ panel.force_full) =>
               /\ panel.clears = 0
               /\ panel.static_draws = 0
        /\ panel.prev_dynamic_line_count = panel.lines
        /\ panel.static_rendered

C39_Witness ==
    /\ panel.op = "render"
    /\ panel.force_full
    /\ panel.since > 1
    /\ panel.clears = 1
    /\ panel.lines > 0

====
